---- MODULE Spec2Model ----
(***************************************************************************)
(* backup_md5: archive the files of a source tree into a content-addressed *)
(* store (files_by_md5) and write, per run, a timestamped tree of pointer  *)
(* records.  The repository holds the pipeline twice: the stand-alone      *)
(* binary (src/main.rs) and the module set (file_processor.rs,             *)
(* directory.rs, hash.rs).  `variant` selects which of the two runs.       *)
(*                                                                         *)
(* A path is a sequence of components, a component (and every string: a    *)
(* file's bytes, a digest, a record's content) a sequence of one-character *)
(* strings.                                                                *)
(***************************************************************************)
EXTENDS Integers, Sequences, FiniteSets, TLC

VARIABLES
    variant,        \* "main" (src/main.rs) or "lib" (file_processor.rs & co)
    source_dir,     \* the source root as the caller spelled it
    target_base,    \* the target base as the caller spelled it
    clock,          \* wall clock, in ticks of 1/TicksPerSecond second
    dirs,           \* directories that exist below the target (resolved paths)
    files,          \* regular files below the target: resolved path -> bytes
    pc,             \* "idle", "walk", "digest", "put", "record"
    timestamp_dir,  \* the running invocation's snapshot directory (as spelled)
    idx,            \* number of traversal entries already consumed
    md5_hex,        \* the fingerprint of the file in the pipeline
    full_md5_path,  \* the location handle_md5_copy returned for it
    runDirs,        \* history: the resolved snapshot directory of each invocation
    lastResult,     \* what the last invocation returned: "none" before the first,
                    \* "running" until it returns, then "ok" or "err"
    hashed,         \* this invocation: files handed to calculate_md5
    stored,         \* this invocation: files for which handle_md5_copy returned Ok
    okFiles,        \* this invocation: files for which process_file returned Ok
    reported,       \* this invocation: files whose error went to stderr
    putLog,         \* history: <<fingerprint, returned location>> of each Ok put
    recorded,       \* history: the records written in full and still standing,
                    \* each with the fingerprint computed for its source file
    fails,          \* number of I/O failures injected so far
    lastCall        \* history: the last direct call of create_timestamp_record

vars == <<variant, source_dir, target_base, clock, dirs, files, pc,
          timestamp_dir, idx, md5_hex, full_md5_path, runDirs, lastResult,
          hashed, stored, okFiles, reported, putLog, recorded, fails,
          lastCall>>

----------------------------------------------------------------------------
(* Bounds of the model *)

MaxRuns == 2          \* invocations per behaviour
MaxFailures == 2      \* injected I/O failures per behaviour
MaxClock == 2         \* last clock tick
TicksPerSecond == 2   \* clock resolution: ticks per second of the timestamp
MaxCalls == 2         \* direct calls of the recorder per behaviour

----------------------------------------------------------------------------
(* Strings *)

Last(s) == s[Len(s)]
Front(s) == SubSeq(s, 1, Len(s) - 1)

\* str::starts_with(char)
starts_with(s, c) == Len(s) > 0 /\ s[1] = c

IsPrefix(p, s) == Len(p) <= Len(s) /\ SubSeq(s, 1, Len(p)) = p

\* char::to_lowercase on the letters the model's names use
LowerChar(c) ==
    CASE c = "T" -> "t"
      [] c = "X" -> "x"
      [] c = "P" -> "p"
      [] c = "D" -> "d"
      [] c = "F" -> "f"
      [] OTHER -> c

\* str::to_lowercase
to_lowercase(s) == [i \in 1..Len(s) |-> LowerChar(s[i])]

----------------------------------------------------------------------------
(* std::path *)

RootDir == <<"/">>
CurDir == <<".">>
ParentDir == <<".", ".">>

\* Component::Normal
IsNormal(c) == c # RootDir /\ c # CurDir /\ c # ParentDir

IsAbsolute(p) == p # <<>> /\ p[1] = RootDir

\* Path::join: an absolute right operand replaces the left one
Join(p, q) == IF IsAbsolute(q) THEN q ELSE p \o q

\* Path::parent
Parent(p) == Front(p)

RECURSIVE PathStr(_)
\* Path::to_string_lossy / display: the components separated by '/'
PathStr(p) ==
    IF p = <<>> THEN <<>>
    ELSE IF Len(p) = 1 THEN p[1]
    ELSE IF Front(p) = <<RootDir>> THEN RootDir \o Last(p)
    ELSE PathStr(Front(p)) \o <<"/">> \o Last(p)

RECURSIVE SplitSlash(_, _)
\* the pieces of string s between '/' characters; cur is the piece being read
SplitSlash(s, cur) ==
    IF s = <<>> THEN (IF cur = <<>> THEN <<>> ELSE <<cur>>)
    ELSE IF Head(s) = "/"
         THEN (IF cur = <<>> THEN <<>> ELSE <<cur>>) \o SplitSlash(Tail(s), <<>>)
         ELSE SplitSlash(Tail(s), Append(cur, Head(s)))

\* Path::new(str).components(): a leading '/' is the root component, a CurDir
\* component survives only in first position
ParsePath(s) ==
    LET pieces == SplitSlash(s, <<>>)
        lead == IF starts_with(s, "/") THEN <<RootDir>> ELSE <<>>
        keep == SelectSeq(pieces, LAMBDA c : c # CurDir)
        first == IF lead = <<>> /\ pieces # <<>> /\ pieces[1] = CurDir
                 THEN <<CurDir>> ELSE <<>>
    IN  lead \o first \o keep

\* Path::file_name: the last component when it is a normal one
file_name(p) == IF p # <<>> /\ IsNormal(Last(p)) THEN {Last(p)} ELSE {}

\* index of the last '.' of a name, 0 when it has none
LastDot(n) ==
    LET ds == {i \in 1..Len(n) : n[i] = "."}
    IN  IF ds = {} THEN 0 ELSE CHOOSE i \in ds : \A j \in ds : j <= i

\* Path::extension (std rsplit_file_at_dot): nothing for a name without '.',
\* for "..", and for a name whose only '.' is its first character
extension(p) ==
    { SubSeq(n, LastDot(n) + 1, Len(n)) :
        n \in {m \in file_name(p) : LastDot(m) > 1} }

\* Path::strip_prefix: the rest of p after base, nothing when base is no prefix
strip_prefix(p, base) ==
    IF IsPrefix(base, p) THEN {SubSeq(p, Len(base) + 1, Len(p))} ELSE {}

----------------------------------------------------------------------------
(* The environment: working directory, source tree, accepted extensions *)

\* the process's working directory
Cwd == <<RootDir, <<"w">>>>

RECURSIVE Normalize(_, _)
\* done \o rest with CurDir components dropped and each ParentDir component
\* taking back the component before it
Normalize(done, rest) ==
    IF rest = <<>> THEN done
    ELSE IF Head(rest) = CurDir THEN Normalize(done, Tail(rest))
    ELSE IF Head(rest) = ParentDir
         THEN Normalize(IF Len(done) > 1 THEN Front(done) ELSE done, Tail(rest))
         ELSE Normalize(Append(done, Head(rest)), Tail(rest))

\* the filesystem's resolution of a spelled path: a relative path starts at the
\* working directory, "." and ".." are resolved (fs::canonicalize on a path that
\* exists; also what open/create/mkdir do with a path)
Resolve(p) == Normalize(<<>>, IF IsAbsolute(p) THEN p ELSE Cwd \o p)

\* the source roots a caller may pass: a plain relative directory, the working
\* directory itself, a directory below a dot-directory
Roots == { << <<"s">> >>,
           << CurDir >>,
           << RootDir, <<".", "c">>, <<"p">> >> }

\* the target bases a caller may pass: relative ("../o") and absolute ("/b");
\* neither lies inside a source root
Targets == { << ParentDir, <<"o">> >>, << RootDir, <<"b">> >> }

\* a target base inside the source root "s": "s/o"
InsideTargets == { << <<"s">>, <<"o">> >> }

AllTargets == Targets \cup InsideTargets

\* the regular files below the source root, in the order the traversal yields
\* them (depth first; the order among siblings is the filesystem's and no step
\* below depends on it): path relative to the root, bytes
SourceFiles == <<
    [rel |-> << <<"a", ".", "t", "x", "t">> >>,             bytes |-> <<"h">>],
    [rel |-> << <<"d">>, <<"b", ".", "T", "X", "T">> >>,    bytes |-> <<"h">>],
    [rel |-> << <<"c", ".", "p", "d", "f">> >>,             bytes |-> <<"h">>],
    [rel |-> << <<".", "g">>, <<"e", ".", "t", "x", "t">> >>, bytes |-> <<"y">>],
    [rel |-> << <<".", "h", ".", "t", "x", "t">> >>,        bytes |-> <<"y">>],
    [rel |-> << <<"n">> >>,                                 bytes |-> <<"h">>],
    [rel |-> << <<"f", ".", "t", "x", "t">> >>,             bytes |-> <<"y">>]
>>

NFiles == Len(SourceFiles)
FileIds == 1..NFiles

\* the accepted extensions, lowercased by the configuration loader
Extensions == { <<"t", "x", "t">>, <<"j", "p", "g">> }

----------------------------------------------------------------------------
(* hash.rs / main.rs: the digest *)

\* md5::compute followed by format!("{:x}"): a fixed-length lowercase hex string,
\* one per byte string.  The table is injective on the byte strings that occur
\* (the source files' contents and their proper prefixes).
Md5Hex(bytes) ==
    CASE bytes = <<"h">> -> <<"2", "5", "1", "0">>
      [] bytes = <<"y">> -> <<"2", "5", "9", "e">>
      [] OTHER           -> <<"d", "4", "1", "d">>

\* the proper prefixes of a byte string: what an interrupted copy can leave
ProperPrefixes(bytes) == { SubSeq(bytes, 1, k) : k \in 0..(Len(bytes) - 1) }

----------------------------------------------------------------------------
(* The filesystem below the target *)

\* a path and all the directories above it
Ancestors(p) == { SubSeq(p, 1, k) : k \in 1..Len(p) }

\* std::fs::create_dir_all on a spelled path
create_dir_all(D, p) == D \cup Ancestors(Resolve(p))

\* Path::exists / fs::canonicalize succeed on a path that names a file or directory
Exists(D, F, p) == Resolve(p) \in DOMAIN F \/ Resolve(p) \in D

\* the file map F with the file at spelled path p holding bytes
WriteFile(F, p, bytes) ==
    [q \in DOMAIN F \cup {Resolve(p)} |-> IF q = Resolve(p) THEN bytes ELSE F[q]]

\* the bytes of the source file at a spelled path (the source tree is only read)
ReadSource(root, path) ==
    LET i == CHOOSE j \in FileIds : root \o SourceFiles[j].rel = path
    IN  SourceFiles[i].bytes

\* "files_by_md5"
FilesByMd5 == <<"f", "i", "l", "e", "s", "_", "b", "y", "_", "m", "d", "5">>

Digit(n) ==
    CASE n = 0 -> "0" [] n = 1 -> "1" [] n = 2 -> "2" [] n = 3 -> "3"
      [] n = 4 -> "4" [] n = 5 -> "5" [] n = 6 -> "6" [] n = 7 -> "7"
      [] n = 8 -> "8" [] OTHER -> "9"

\* Local::now().format("%Y%m%d_%H%M%S"): the clock cut to whole seconds, the
\* seconds counted from 2026-11-01 00:00:00
Timestamp(ticks) ==
    LET sec == ticks \div TicksPerSecond
    IN  <<"2", "0", "2", "6", "1", "1", "0", "1", "_", "0", "0", "0", "0",
          Digit((sec \div 10) % 10), Digit(sec % 10)>>

\* create_timestamp_dir: joins only, creates nothing
create_timestamp_dir(base, ticks) == Join(base, <<Timestamp(ticks)>>)

Md5Dir(base) == Join(base, <<FilesByMd5>>)

----------------------------------------------------------------------------
(* file_processor.rs / main.rs: traversal and filter *)

\* walkdir's DirEntry::file_name: the last component, or the whole path when
\* the path has no file name (the root "." or "/")
EntryFileName(p) == IF file_name(p) = {} THEN PathStr(p) ELSE Last(p)

\* is_hidden: the entry's name starts with '.', or any normal component of the
\* entry's whole path does
is_hidden(p) ==
    \/ starts_with(EntryFileName(p), ".")
    \/ \E i \in 1..Len(p) : IsNormal(p[i]) /\ starts_with(p[i], ".")

\* the path WalkDir yields for file i: the root as spelled, then the entry's names
EntryPath(root, i) == root \o SourceFiles[i].rel

\* WalkDir::new(root).filter_entry(|e| !is_hidden(e)): an entry is yielded only
\* if the root, every directory on the way down and the entry itself pass
Yielded(root, i) ==
    LET rel == SourceFiles[i].rel
    IN  \A k \in 0..Len(rel) : ~is_hidden(root \o SubSeq(rel, 1, k))

\* has_extension with unwrap_or(true): a path without extension passes
has_extension_or_true(path, extensions) ==
    \/ extension(path) = {}
    \/ \E ext \in extension(path) : to_lowercase(ext) \in extensions

\* directory.rs has_extension: the extension, lowercased, is an accepted one
has_extension(path, extensions) ==
    \E ext \in extension(path) : to_lowercase(ext) \in extensions

\* file_processor.rs should_process_file
should_process_file(path, extensions) == has_extension(path, extensions)

\* main.rs should_process_file: path.is_file() holds for every entry the loop
\* passes on, then the same extension test
main_should_process_file(path, extensions) ==
    \E ext \in extension(path) : to_lowercase(ext) \in extensions

\* whether the loop of process_files_with_extensions hands file i to process_file
Selected(v, root, i) ==
    IF v = "lib"
    THEN Yielded(root, i) /\ should_process_file(EntryPath(root, i), Extensions)
    ELSE main_should_process_file(EntryPath(root, i), Extensions)

\* create_directories' error ignored: the invocation goes on into the traversal
AfterSetup_ignore(result) == "walk"

\* create_directories(..)?: an error of the setup is returned at once, before
\* WalkDir is even built; otherwise the loop starts
AfterSetup(result) == IF result = "err" THEN "idle" ELSE "walk"

\* the loop trying a failed file again instead of going on to the next entry
NextPcAfter_retry(result) == IF result = "err" THEN "digest" ELSE "walk"

\* the loop with the error propagated (process_file(..)?): the first failing file
\* ends the invocation
NextPcAfter_abort(result) == IF result = "err" THEN "idle" ELSE "walk"

\* where the loop goes after process_file returned: the error is printed and
\* the loop goes on to the next entry, for Ok and Err alike
NextPcAfter(result) == "walk"

----------------------------------------------------------------------------
(* directory.rs / main.rs: the Content Store and the Snapshot Recorder *)

\* std::fs::copy to an absent destination: the copy, or a failure that leaves
\* no destination, or a failure that leaves part of the bytes
fs_copy(F, bytes, dst) ==
    { [ok |-> TRUE, files |-> WriteFile(F, dst, bytes)] }
    \cup { [ok |-> FALSE, files |-> F] }
    \cup { [ok |-> FALSE, files |-> WriteFile(F, dst, pre)] : pre \in ProperPrefixes(bytes) }

\* the copy made whether or not the target exists
CopyAlways(bytes, md5_target, D, F) ==
    LET full == IF Exists(D, F, md5_target)
                THEN PathStr(Resolve(md5_target))
                ELSE PathStr(md5_target)
    IN  { [ok |-> c.ok, ret |-> full, dirs |-> D, files |-> c.files] :
            c \in fs_copy(F, bytes, md5_target) }

\* the lines both variants of handle_md5_copy share: canonicalize the target
\* (falling back to the spelled path when it does not exist yet), then copy
\* only if the target does not exist, and return the string computed first
CopyIfAbsent(bytes, md5_target, D, F) ==
    LET full == IF Exists(D, F, md5_target)
                THEN PathStr(Resolve(md5_target))
                ELSE PathStr(md5_target)
    IN  IF Exists(D, F, md5_target)
        THEN { [ok |-> TRUE, ret |-> full, dirs |-> D, files |-> F] }
        ELSE { [ok |-> c.ok, ret |-> full, dirs |-> D, files |-> c.files] :
                 c \in fs_copy(F, bytes, md5_target) }

\* handle_md5_copy with the entry named after the source file instead of after
\* the fingerprint
handle_md5_copy_by_name(source_root, source_path, md5_dir, hex, D, F) ==
    LET prefix == SubSeq(hex, 1, 2)
        sub_dir == Join(md5_dir, <<prefix>>)
        md5_target == Join(sub_dir, <<Last(source_path)>>)
    IN  { [ok |-> FALSE, ret |-> <<>>, dirs |-> D, files |-> F] }
        \cup CopyIfAbsent(ReadSource(source_root, source_path), md5_target,
                          create_dir_all(D, sub_dir), F)

\* directory.rs handle_md5_copy: md5_dir/<first two characters>/<md5_hex>
handle_md5_copy(source_root, source_path, md5_dir, hex, D, F) ==
    LET prefix == SubSeq(hex, 1, 2)
        sub_dir == Join(md5_dir, <<prefix>>)
        md5_target == Join(sub_dir, <<hex>>)
    IN  { [ok |-> FALSE, ret |-> <<>>, dirs |-> D, files |-> F] }
        \cup CopyIfAbsent(ReadSource(source_root, source_path), md5_target,
                          create_dir_all(D, sub_dir), F)

\* main.rs handle_md5_copy: md5_dir/<md5_hex>, no shard directory
main_handle_md5_copy(source_root, source_path, md5_dir, hex, D, F) ==
    LET md5_target == Join(md5_dir, <<hex>>)
    IN  CopyIfAbsent(ReadSource(source_root, source_path), md5_target, D, F)

\* the recorder falling back to the file's name when the path is not below the base
create_timestamp_record_by_name(source_path, source_base, ts_dir, content, D, F) ==
    LET relative_path == IF strip_prefix(source_path, source_base) = {}
                         THEN <<Last(source_path)>>
                         ELSE CHOOSE r \in strip_prefix(source_path, source_base) : TRUE
        record_path == Join(ts_dir, relative_path)
        D2 == create_dir_all(D, Parent(record_path))
    IN  { [ok |-> FALSE, io |-> TRUE, dirs |-> D, files |-> F],
          [ok |-> TRUE, io |-> FALSE, dirs |-> D2,
           files |-> WriteFile(F, record_path, content)] }

\* the recorder naming the record by the source's file name alone
create_timestamp_record_flat(source_path, source_base, ts_dir, content, D, F) ==
    IF strip_prefix(source_path, source_base) = {}
    THEN { [ok |-> FALSE, io |-> FALSE, dirs |-> D, files |-> F] }
    ELSE LET record_path == Join(ts_dir, <<Last(source_path)>>)
             D2 == create_dir_all(D, Parent(record_path))
         IN  { [ok |-> FALSE, io |-> TRUE, dirs |-> D, files |-> F],
               [ok |-> TRUE, io |-> FALSE, dirs |-> D2,
                files |-> WriteFile(F, record_path, content)] }

\* create_timestamp_record (the same text in directory.rs and main.rs)
create_timestamp_record(source_path, source_base, ts_dir, content, D, F) ==
    IF strip_prefix(source_path, source_base) = {}
    THEN { [ok |-> FALSE, io |-> FALSE, dirs |-> D, files |-> F] }
    ELSE LET relative_path == CHOOSE r \in strip_prefix(source_path, source_base) : TRUE
             record_path == Join(ts_dir, relative_path)
             D2 == create_dir_all(D, Parent(record_path))
         IN  { [ok |-> FALSE, io |-> TRUE, dirs |-> D, files |-> F],
               [ok |-> FALSE, io |-> TRUE, dirs |-> D2, files |-> F],
               [ok |-> FALSE, io |-> TRUE, dirs |-> D2,
                files |-> WriteFile(F, record_path, <<>>)],
               [ok |-> TRUE, io |-> FALSE, dirs |-> D2,
                files |-> WriteFile(F, record_path, content)] }

\* the string process_file hands to create_timestamp_record: main.rs passes the
\* location handle_md5_copy returned, file_processor.rs passes md5_hex
RecordContent(v, hex, full) == IF v = "lib" THEN hex ELSE full

\* the path of file i's pointer record in snapshot directory ts_dir
RecordPath(ts_dir, i) == Resolve(Join(ts_dir, SourceFiles[i].rel))

----------------------------------------------------------------------------
(* The state machine *)

NoFiles == [q \in {} |-> <<>>]

\* nothing has run yet: the target holds nothing, the clock stands at its start
Fresh ==
    /\ clock = 0
    /\ dirs = Ancestors(Cwd)
    /\ files = NoFiles
    /\ pc = "idle"
    /\ timestamp_dir = <<>>
    /\ idx = 0
    /\ md5_hex = <<>>
    /\ full_md5_path = <<>>
    /\ runDirs = <<>>
    /\ lastResult = "none"
    /\ hashed = {}
    /\ stored = {}
    /\ okFiles = {}
    /\ reported = {}
    /\ putLog = {}
    /\ recorded = {}
    /\ fails = 0
    /\ lastCall = [n |-> 0, rooted |-> TRUE, ok |-> TRUE, changed |-> FALSE]

Init ==
    /\ variant \in {"main", "lib"}
    /\ source_dir \in Roots
    /\ target_base \in Targets
    \* main.rs never looks at the names above an entry, so one spelling of the
    \* root stands for all of them there
    /\ variant = "main" => source_dir = << <<"s">> >>
    /\ Fresh

\* the caller may also pass a target base that lies inside the source root
InitOverlap ==
    /\ variant \in {"main", "lib"}
    /\ source_dir = << <<"s">> >>
    /\ target_base \in InsideTargets \cup { << RootDir, <<"b">> >> }
    /\ Fresh

\* whether target base t, resolved, lies inside source root r, resolved
TargetInSourceOf ==
    [r \in Roots |-> [t \in AllTargets |-> IsPrefix(Resolve(r), Resolve(t))]]

\* With the target inside the source root the traversal meets the target's own
\* directories.  The list SourceFiles is then the traversal of a first
\* invocation in which the target's directory is read before anything was
\* written into it; a later invocation would also be handed what the earlier
\* one wrote, which that list does not hold, and is left out.
TraversalIsSourceFiles ==
    TargetInSourceOf[source_dir][target_base] => runDirs = <<>>

\* time passes between two invocations (an invocation reads the clock once, at
\* its start; the clock counts from the first invocation)
Tick ==
    /\ pc = "idle"
    /\ runDirs # <<>>
    /\ Len(runDirs) < MaxRuns
    /\ clock < MaxClock
    /\ clock' = clock + 1
    /\ UNCHANGED <<variant, source_dir, target_base, dirs, files, pc,
                   timestamp_dir, idx, md5_hex, full_md5_path, runDirs,
                   lastResult, hashed, stored, okFiles, reported, putLog,
                   recorded, fails>>
    /\ UNCHANGED lastCall

\* process_files_with_extensions up to the loop: the snapshot directory's name
\* from the clock, then create_directories(&[&md5_dir, &timestamp_dir])
StartRun ==
    /\ pc = "idle"
    /\ Len(runDirs) < MaxRuns
    /\ TraversalIsSourceFiles
    /\ LET ts == create_timestamp_dir(target_base, clock)
       IN  /\ timestamp_dir' = ts
           /\ dirs' = create_dir_all(create_dir_all(dirs, Md5Dir(target_base)), ts)
           /\ runDirs' = Append(runDirs, Resolve(ts))
    /\ pc' = AfterSetup("ok")
    /\ lastResult' = "running"
    /\ idx' = 0
    /\ hashed' = {}
    /\ stored' = {}
    /\ okFiles' = {}
    /\ reported' = {}
    /\ UNCHANGED <<variant, source_dir, target_base, clock, files, md5_hex,
                   full_md5_path, putLog, recorded, fails>>
    /\ UNCHANGED lastCall

\* create_directories fails on the first or on the second directory: the
\* invocation returns the error before the traversal starts
StartRunFails ==
    /\ pc = "idle"
    /\ Len(runDirs) < MaxRuns
    /\ TraversalIsSourceFiles
    /\ fails < MaxFailures
    /\ fails' = fails + 1
    /\ dirs' \in {dirs, create_dir_all(dirs, Md5Dir(target_base))}
    /\ pc' = AfterSetup("err")
    /\ lastResult' = "err"
    /\ idx' = 0
    /\ hashed' = {}
    /\ stored' = {}
    /\ okFiles' = {}
    /\ reported' = {}
    /\ UNCHANGED <<variant, source_dir, target_base, clock, files,
                   timestamp_dir, md5_hex, full_md5_path, runDirs,
                   putLog, recorded>>
    /\ UNCHANGED lastCall

\* the loop takes the next entry of the traversal and filters it
Walk ==
    /\ pc = "walk"
    /\ idx < NFiles
    /\ idx' = idx + 1
    /\ pc' = IF Selected(variant, source_dir, idx + 1) THEN "digest" ELSE "walk"
    /\ UNCHANGED <<variant, source_dir, target_base, clock, dirs, files,
                   timestamp_dir, md5_hex, full_md5_path, runDirs, lastResult,
                   hashed, stored, okFiles, reported, putLog, recorded, fails>>
    /\ UNCHANGED lastCall

\* the traversal is exhausted: Ok(())
Finish ==
    /\ pc = "walk"
    /\ idx = NFiles
    /\ pc' = "idle"
    /\ lastResult' = "ok"
    /\ UNCHANGED <<variant, source_dir, target_base, clock, dirs, files,
                   timestamp_dir, idx, md5_hex, full_md5_path, runDirs,
                   hashed, stored, okFiles, reported, putLog, recorded, fails>>
    /\ UNCHANGED lastCall

\* calculate_md5 reads the file and returns its digest
Digest ==
    /\ pc = "digest"
    /\ hashed' = hashed \cup {idx}
    /\ md5_hex' = Md5Hex(ReadSource(source_dir, EntryPath(source_dir, idx)))
    /\ pc' = "put"
    /\ UNCHANGED <<variant, source_dir, target_base, clock, dirs, files,
                   timestamp_dir, idx, full_md5_path, runDirs, lastResult,
                   stored, okFiles, reported, putLog, recorded, fails>>
    /\ UNCHANGED lastCall

\* calculate_md5 cannot open or read the file
DigestFails ==
    /\ pc = "digest"
    /\ fails < MaxFailures
    /\ fails' = fails + 1
    /\ hashed' = hashed \cup {idx}
    /\ reported' = reported \cup {idx}
    /\ pc' = NextPcAfter("err")
    /\ UNCHANGED <<variant, source_dir, target_base, clock, dirs, files,
                   timestamp_dir, idx, md5_hex, full_md5_path, runDirs,
                   lastResult, stored, okFiles, putLog, recorded>>
    /\ UNCHANGED lastCall

\* the outcomes of the variant's handle_md5_copy for the file in the pipeline
PutOutcomes ==
    IF variant = "lib"
    THEN handle_md5_copy(source_dir, EntryPath(source_dir, idx),
                         Md5Dir(target_base), md5_hex, dirs, files)
    ELSE main_handle_md5_copy(source_dir, EntryPath(source_dir, idx),
                              Md5Dir(target_base), md5_hex, dirs, files)

\* handle_md5_copy returns Ok(location)
Put ==
    /\ pc = "put"
    /\ \E o \in PutOutcomes :
         /\ o.ok
         /\ dirs' = o.dirs
         /\ files' = o.files
         /\ full_md5_path' = o.ret
         /\ putLog' = putLog \cup {<<md5_hex, o.ret>>}
    /\ stored' = stored \cup {idx}
    /\ pc' = "record"
    /\ UNCHANGED <<variant, source_dir, target_base, clock, timestamp_dir, idx,
                   md5_hex, runDirs, lastResult, hashed, okFiles, reported,
                   recorded, fails>>
    /\ UNCHANGED lastCall

\* handle_md5_copy returns Err: the shard directory or the copy failed
PutFails ==
    /\ pc = "put"
    /\ fails < MaxFailures
    /\ fails' = fails + 1
    /\ \E o \in PutOutcomes :
         /\ ~o.ok
         /\ dirs' = o.dirs
         /\ files' = o.files
    /\ reported' = reported \cup {idx}
    /\ pc' = NextPcAfter("err")
    /\ UNCHANGED <<variant, source_dir, target_base, clock, timestamp_dir, idx,
                   md5_hex, full_md5_path, runDirs, lastResult, hashed, stored,
                   okFiles, putLog, recorded>>
    /\ UNCHANGED lastCall

RecordOutcomes ==
    create_timestamp_record(EntryPath(source_dir, idx), source_dir, timestamp_dir,
                            RecordContent(variant, md5_hex, full_md5_path),
                            dirs, files)

\* create_timestamp_record returns Ok: process_file returns Ok
Record ==
    /\ pc = "record"
    /\ \E o \in RecordOutcomes :
         /\ o.ok
         /\ dirs' = o.dirs
         /\ files' = o.files
    /\ okFiles' = okFiles \cup {idx}
    /\ recorded' = {r \in recorded : r.path # RecordPath(timestamp_dir, idx)}
                    \cup {[path |-> RecordPath(timestamp_dir, idx), hex |-> md5_hex]}
    /\ pc' = NextPcAfter("ok")
    /\ UNCHANGED <<variant, source_dir, target_base, clock, timestamp_dir, idx,
                   md5_hex, full_md5_path, runDirs, lastResult, hashed, stored,
                   reported, putLog, fails>>
    /\ UNCHANGED lastCall

\* create_timestamp_record returns Err; a record it had begun to rewrite no
\* longer stands
RecordFails ==
    /\ pc = "record"
    /\ \E o \in RecordOutcomes :
         /\ ~o.ok
         /\ o.io => fails < MaxFailures
         /\ fails' = IF o.io THEN fails + 1 ELSE fails
         /\ dirs' = o.dirs
         /\ files' = o.files
         /\ recorded' = IF o.files = files THEN recorded
                        ELSE {r \in recorded : r.path # RecordPath(timestamp_dir, idx)}
    /\ reported' = reported \cup {idx}
    /\ pc' = NextPcAfter("err")
    /\ UNCHANGED <<variant, source_dir, target_base, clock, timestamp_dir, idx,
                   md5_hex, full_md5_path, runDirs, lastResult, hashed, stored,
                   okFiles, putLog>>
    /\ UNCHANGED lastCall

Next ==
    \/ Tick
    \/ StartRun
    \/ StartRunFails
    \/ Walk
    \/ Finish
    \/ Digest
    \/ DigestFails
    \/ Put
    \/ PutFails
    \/ Record
    \/ RecordFails

Spec == Init /\ [][Next]_vars

SpecOverlap == InitOverlap /\ [][Next]_vars

-----------------------------------------------------------------------------
(* The recorder called on its own, as the tests of directory.rs call it *)

\* the source paths a caller passes: the files as WalkDir spells them under
\* each root
CallPaths == { EntryPath(r, i) : r \in Roots, i \in FileIds }

\* the bases a caller passes: the roots, also one that is not the path's own
CallBases == Roots

\* the snapshot directory of the calls
CallDir == create_timestamp_dir(<< RootDir, <<"b">> >>, 0)

\* source_path lies below source_base in the filesystem
RootedUnder(source_path, source_base) ==
    IsPrefix(Resolve(source_base), Resolve(source_path))

InitRecorder ==
    /\ variant = "lib"
    /\ source_dir = << <<"s">> >>
    /\ target_base = << RootDir, <<"b">> >>
    /\ Fresh

\* one call create_timestamp_record(source_path, source_base, timestamp_dir, md5)
RecorderCall ==
    /\ lastCall.n < MaxCalls
    /\ \E source_path \in CallPaths, source_base \in CallBases :
         \E o \in create_timestamp_record(source_path, source_base, CallDir,
                                          Md5Hex(<<"h">>), dirs, files) :
            /\ dirs' = o.dirs
            /\ files' = o.files
            /\ lastCall' = [n       |-> lastCall.n + 1,
                            rooted  |-> RootedUnder(source_path, source_base),
                            ok      |-> o.ok,
                            changed |-> o.dirs # dirs \/ o.files # files]
    /\ UNCHANGED <<variant, source_dir, target_base, clock, pc, timestamp_dir,
                   idx, md5_hex, full_md5_path, runDirs, lastResult, hashed,
                   stored, okFiles, reported, putLog, recorded, fails>>

NextRecorder == RecorderCall

SpecRecorder == InitRecorder /\ [][NextRecorder]_vars


----------------------------------------------------------------------------
(* What the claims speak of *)

\* the Content Store's root, resolved, for each target base
StoreRootOf == [t \in AllTargets |-> Resolve(Md5Dir(t))]

StoreRoot == StoreRootOf[target_base]

\* the physical entries of the Content Store: the files below its root
StoreEntries ==
    LET root == StoreRoot
    IN  { p \in DOMAIN files : IsPrefix(root, p) /\ p # root }

\* the fingerprint of each source file
FingerprintOf == [i \in FileIds |-> Md5Hex(SourceFiles[i].bytes)]

Fingerprint(i) == FingerprintOf[i]

Fingerprints == { FingerprintOf[i] : i \in FileIds }

\* the entries stored under fingerprint fp
EntriesOf(fp) == { p \in StoreEntries : Last(p) = fp }

\* the files the loop hands to process_file, for each variant and source root
SelectedFiles ==
    [v \in {"main", "lib"} |->
        [r \in Roots |-> { i \in FileIds : Selected(v, r, i) }]]

\* an invocation has run to its end and nothing has started since
RunDone == pc = "idle" /\ runDirs # <<>> /\ idx = NFiles

\* the files whose own name, or the name of a directory between the root and
\* them, starts with a period
HiddenFiles ==
    { i \in FileIds :
        \E k \in 1..Len(SourceFiles[i].rel) : starts_with(SourceFiles[i].rel[k], ".") }

HiddenBelowRoot(i) == i \in HiddenFiles

\* the files whose name has a '.' and whose text after the last '.', lowercased,
\* is an accepted extension
AcceptedFiles ==
    { i \in FileIds :
        LET n == Last(SourceFiles[i].rel)
        IN  /\ \E k \in 1..Len(n) : n[k] = "."
            /\ to_lowercase(SubSeq(n, LastDot(n) + 1, Len(n))) \in Extensions }

AcceptedExtension(i) == i \in AcceptedFiles

\* file i has a pointer record in some invocation's snapshot directory
HasRecord(i) ==
    \E r \in 1..Len(runDirs) : Join(runDirs[r], SourceFiles[i].rel) \in DOMAIN files

----------------------------------------------------------------------------
(* Claims *)

\* C1: after process_file returned Ok for a file, the whole content of its
\* pointer record is the resolved absolute path of the Content Store entry that
\* holds the file's bytes.
C1_PointerIsResolvedStorePath ==
    \A i \in okFiles :
        LET rp == RecordPath(timestamp_dir, i)
        IN  /\ rp \in DOMAIN files
            /\ \E p \in EntriesOf(Fingerprint(i)) : files[rp] = PathStr(p)

\* C2: all successful puts of one fingerprint return the same location.
C2_PutReturnsSameLocation ==
    \A a \in putLog : \A b \in putLog : a[1] = b[1] => a[2] = b[2]

\* C3: the Content Store never holds two entries for one fingerprint, holds no
\* entry that is not named by a source file's fingerprint, and holds exactly one
\* entry for the fingerprint of every file whose put succeeded, however many
\* files share it.
C3_OneEntryPerFingerprint ==
    LET entries == StoreEntries
    IN  /\ \A p \in entries : \A q \in entries : Last(p) = Last(q) => p = q
        /\ \A p \in entries : Last(p) \in Fingerprints
        /\ \A i \in stored :
               Cardinality({p \in entries : Last(p) = Fingerprint(i)}) = 1

\* C3's case: in a second invocation two files of identical bytes have both been
\* put
C3_Witness ==
    /\ Len(runDirs) = 2
    /\ \E i \in stored : \E j \in stored : i # j /\ Fingerprint(i) = Fingerprint(j)

\* C4: the content of every pointer record written in full, read as a path and
\* opened, yields bytes whose fingerprint is the one computed for the source file.
C4_RoundTrip ==
    \A r \in recorded :
        LET target == Resolve(ParsePath(files[r.path]))
        IN  /\ target \in DOMAIN files
            /\ Md5Hex(files[target]) = r.hex

\* C5: every Content Store entry lies at
\* files_by_md5/<first two characters of the fingerprint>/<fingerprint>.
C5_EntriesAreSharded ==
    \A p \in StoreEntries :
        /\ Last(p) \in Fingerprints
        /\ p = StoreRoot \o <<SubSeq(Last(p), 1, 2), Last(p)>>


\* C6: a file whose own name, or the name of a directory between the root and
\* it, starts with a period is never hashed, never stored and never recorded.
C6_HiddenNeverProcessed ==
    \A i \in FileIds :
        HiddenBelowRoot(i) => i \notin hashed /\ i \notin stored /\ ~HasRecord(i)

\* C7: when an invocation has ended without any failure, every file with an
\* accepted extension and no period-led name between the root and itself has
\* its pointer record in the invocation's snapshot directory, whatever the
\* root is called and wherever it lies.
C7_EveryEligibleFileRecorded ==
    (RunDone /\ lastResult = "ok" /\ reported = {}) =>
        \A i \in FileIds :
            (AcceptedExtension(i) /\ ~HiddenBelowRoot(i)) =>
                i \in okFiles /\ RecordPath(timestamp_dir, i) \in DOMAIN files

\* C8: a file whose lowercased extension is not accepted, or that has no
\* extension, is never hashed, never stored and never gets a pointer record.
C8_UnacceptedNeverProcessed ==
    \A i \in FileIds :
        ~AcceptedExtension(i) => i \notin hashed /\ i \notin stored /\ ~HasRecord(i)

\* C8's case: an invocation has passed the files with a foreign extension and
\* without extension, and has recorded another file
C8_Witness ==
    /\ RunDone
    /\ okFiles # {}
    /\ \E i \in FileIds : ~AcceptedExtension(i) /\ extension(SourceFiles[i].rel) = {}
    /\ \E i \in FileIds : ~AcceptedExtension(i) /\ extension(SourceFiles[i].rel) # {}

\* C9: no two invocations use the same snapshot directory.
C9_RunDirsDistinct ==
    \A a \in 1..Len(runDirs) : \A b \in 1..Len(runDirs) :
        a # b => runDirs[a] # runDirs[b]

\* C10: a failing file does not end the invocation: once the invocation is
\* over, every file the traversal selected has been through the pipeline, and
\* each of them either had its error reported or was recorded; while it runs,
\* every selected file the traversal has passed has been through the pipeline.
C10_FailureIsolation ==
    /\ pc = "idle" /\ runDirs # <<>> /\ lastResult # "err" =>
           SelectedFiles[variant][source_dir] \subseteq hashed
    /\ pc = "walk" =>
           SelectedFiles[variant][source_dir] \cap (1..idx) \subseteq hashed
    /\ pc \in {"idle", "walk"} =>
           /\ reported \cup okFiles = hashed
           /\ reported \cap okFiles = {}

\* C10's case: the invocation is over, a file failed and a file the traversal
\* reached after it was recorded
C10_Witness ==
    /\ RunDone
    /\ \E i \in reported : \E j \in okFiles : i < j

\* how far an invocation is from its end: the entries the traversal has still
\* to yield, and within one entry the steps of process_file still to take
StepsLeft ==
    LET rank == [q \in {"walk", "digest", "put", "record"} |->
                    CASE q = "digest" -> 3 [] q = "put" -> 2
                      [] q = "record" -> 1 [] OTHER -> 0]
    IN  (NFiles - idx) * 4 + rank[pc]

\* the step the invocation is at can be taken without any failure
CanStep ==
    CASE pc = "walk" -> idx <= NFiles
      [] pc = "digest" -> idx \in FileIds
      [] pc = "put" -> \E o \in PutOutcomes : o.ok
      [] pc = "record" -> \E o \in RecordOutcomes : o.ok
      [] OTHER -> TRUE

C12_SetupFailureIsFatal ==
    /\ [](lastResult = "err" =>
            /\ pc = "idle"
            /\ idx = 0
            /\ hashed = {} /\ stored = {} /\ okFiles = {} /\ reported = {})
    /\ [][lastResult' = "err" => files' = files]_vars

\* the setup of an invocation failed although the source holds files to back
\* up, after an earlier invocation had stored some
C12_Witness ==
    /\ lastResult = "err"
    /\ SelectedFiles[variant][source_dir] # {}
    /\ DOMAIN files # {}

\* the source root as the filesystem resolves it
SourceRootOf == [r \in Roots |-> Resolve(r)]

\* the directories of the source tree: the root and those its files lie in
SourceDirsOf ==
    [r \in Roots |->
        UNION { { Resolve(r \o SubSeq(SourceFiles[i].rel, 1, k)) :
                    k \in 0..(Len(SourceFiles[i].rel) - 1) } : i \in FileIds }]

\* C13: in every reachable state the files and directories under source_dir
\* are those that were there when the run started, with the same contents:
\* no file below the source root has been written and no directory below it
\* has been created, whatever source_dir and target_base are.
C13_SourceTreeUnchanged ==
    LET root == SourceRootOf[source_dir]
    IN  /\ \A p \in DOMAIN files : ~IsPrefix(root, p)
        /\ \A d \in dirs : IsPrefix(root, d) => d \in SourceDirsOf[source_dir]

\* the snapshot directory of the invocation under way or last started, resolved
RunDir == runDirs[Len(runDirs)]

\* C14: the pointer record of a file lies at run_dir joined with the file's
\* path relative to the source root, and every directory on the way from
\* run_dir down to it exists; the snapshot directory holds files at such places
\* only, and two distinct source files have distinct pointer paths.
C14_RecordMirrorsSourcePath ==
    runDirs # <<>> =>
      /\ \A i \in okFiles :
            LET rel == SourceFiles[i].rel
            IN  /\ RunDir \o rel \in DOMAIN files
                /\ \A k \in 0..(Len(rel) - 1) : RunDir \o SubSeq(rel, 1, k) \in dirs
      /\ \A p \in DOMAIN files :
            IsPrefix(RunDir, p) => \E i \in FileIds : p = RunDir \o SourceFiles[i].rel
      /\ \A i, j \in okFiles :
            i # j => Join(timestamp_dir, SourceFiles[i].rel)
                       # Join(timestamp_dir, SourceFiles[j].rel)

\* a file in a subdirectory of the source root and a file directly in the root
\* have both been recorded by one invocation
C14_Witness ==
    /\ \E i \in okFiles : Len(SourceFiles[i].rel) > 1
    /\ \E j \in okFiles : Len(SourceFiles[j].rel) = 1

\* C15: the steps run as digest, put, record, each only after the earlier ones
\* succeeded, so in every reachable state a pointer record that the run
\* directory holds belongs to a file whose fingerprint has an entry in the
\* Content Store, and a file whose digest or put failed in the invocation has
\* no pointer record in the run directory.
C15_PipelineOrder ==
    /\ stored \subseteq hashed
    /\ okFiles \subseteq stored
    /\ pc = "put" => idx \in hashed
    /\ pc = "record" => idx \in stored
    /\ runDirs # <<>> =>
         \A i \in FileIds :
            RunDir \o SourceFiles[i].rel \in DOMAIN files =>
               /\ EntriesOf(FingerprintOf[i]) # {}
               /\ i \notin reported \ stored

\* the Content Store as a whole: its entries with their bytes, and its directories
StoreContent ==
    LET root == StoreRoot
    IN  [entries |-> [p \in StoreEntries |-> files[p]],
         dirs    |-> { d \in dirs : IsPrefix(root, d) }]

\* C16: a put for a fingerprint whose entry exists leaves the whole Content
\* Store as it was, whether it returns Ok or Err: no entry is rewritten, deleted
\* or added, and no file anywhere is written.
C16_PutOnExistingEntryIsNoOp ==
    [][(pc = "put" /\ EntriesOf(md5_hex) # {}) =>
          (StoreContent' = StoreContent /\ files' = files)]_vars

\* a put has returned for a file whose fingerprint another file of the same
\* invocation had already stored
C16_Witness ==
    /\ pc = "record"
    /\ \E j \in stored : j # idx /\ FingerprintOf[j] = FingerprintOf[idx]

\* C17: a call of the recorder with a source_path that does not lie below
\* source_root returns an error and leaves the filesystem as it was: no
\* directory and no file has been created under the snapshot directory.
C17_UnrootedPathIsRejected ==
    (lastCall.n > 0 /\ ~lastCall.rooted) => (~lastCall.ok /\ ~lastCall.changed)

\* the recorder has been called with a path outside the base it was given,
\* after a call that wrote a record
C17_Witness ==
    /\ lastCall.n > 1
    /\ ~lastCall.rooted
    /\ DOMAIN files # {}

====
